---- MODULE Spec2Model ----
(***************************************************************************)
(* A model of cropharvest/engineer.py: the band transforms (calculate_ndvi, *)
(* remove_bands, fillna), the online normaliser (update_normalizing_values, *)
(* calculate_normalizing_dict, adjust_normalizing_dict), the test label     *)
(* mask of process_test_file and the checkpointed file loop of              *)
(* create_pickled_dataset.                                                  *)
(*                                                                          *)
(* Numbers are exact rationals <<numerator, denominator>>; a denominator of *)
(* 0 stands for the non-finite floats (<<0,0>> is NaN, <<1,0>> and <<-1,0>> *)
(* the infinities).  Python's 0-based band positions are kept 1-based.      *)
(***************************************************************************)
EXTENDS Integers, Sequences, FiniteSets, TLC

VARIABLES
    catalog,        \* which band catalog cropharvest.eo provides
    b_pc,           \* position inside the transform pipeline of a builder
    average_slope,  \* load_tif's second result
    raw_np,         \* the array taken from load_tif's DataArray
    ndvi_np,        \* ... after calculate_ndvi
    removed_np,     \* ... after remove_bands
    filled,         \* fillna's outcome
    norm_interim,   \* Engineer.norm_interim
    read_out,       \* the last result of calculate_normalizing_dict
    eng,            \* three Engineers' norm_interim: groups "a", "b" and "all"
    t_pc,           \* pickle_test_instances: "idle", "loop", "done" or "raised"
    test_todo,      \* test rasters still to process
    test_saved,     \* test instances pickled
    positive_geoms, \* the geometries of the last test raster, as sets of pixels
    negative_geoms,
    y,              \* the label vector process_test_file built last
    file_kind,      \* eo_files and the labels: what each raw file holds
    arrays_dir,     \* the training instances on disk
    normalizing_dict_pkl, \* normalizing_dict.pkl (None: the file does not exist)
    pkl_folded,     \* history: how often each instance was folded into the pkl
    interim_folded, \* history: how often each instance was folded into norm_interim
    r_pc,           \* "none" (no Engineer), "idle", "loop", "finished", "raised"
    raised,         \* the exception that ended the last run
    todo,           \* files the loop of create_pickled_dataset has yet to visit
    checkpoint,
    old_normalizing_dict,
    num_new_files,
    skipped_files,
    run_written,    \* history: the files the current run has written
    runs            \* create_pickled_dataset calls so far

bandVars == <<catalog, b_pc, average_slope, raw_np, ndvi_np, removed_np, filled>>

normVars == <<norm_interim, read_out, eng>>

labelVars == <<t_pc, test_todo, test_saved, positive_geoms, negative_geoms, y>>

runVars == <<file_kind, arrays_dir, normalizing_dict_pkl, pkl_folded, interim_folded,
             r_pc, raised, todo, checkpoint, old_normalizing_dict, num_new_files,
             skipped_files, run_written, runs>>

-----------------------------------------------------------------------------
(* Bounds of the model *)

\* timesteps per raster (config.NUM_TIMESTEPS, whose value is not in the sources)
NUM_TIMESTEPS == 2
\* pixels of a test raster
MaxPixels == 2
\* largest value of a sample folded into the normaliser
MaxSample == 2
\* rows one Engineer folds
MaxRows == 6
\* test rasters in test_eo_data
MaxTestFiles == 2
\* raw files in eo_data
MaxFiles == 2
\* create_pickled_dataset calls
MaxRuns == 3

-----------------------------------------------------------------------------
(* Float arithmetic, exact *)

Abs(i) == IF i < 0 THEN -i ELSE i

Sign(i) == IF i < 0 THEN -1 ELSE IF i > 0 THEN 1 ELSE 0

RECURSIVE Gcd(_, _)
Gcd(a, b) == IF b = 0 THEN a ELSE Gcd(b, a % b)

NaN == <<0, 0>>

IsNaN(a) == a = NaN

IsFinite(a) == a[2] # 0

Norm(n, d) ==
    IF d = 0 THEN <<Sign(n), 0>>
    ELSE LET g == Gcd(Abs(n), Abs(d))
             s == IF d < 0 THEN -1 ELSE 1
         IN  <<(s * n) \div g, (s * d) \div g>>

IntR(i) == <<i, 1>>

Zero == IntR(0)

RAdd(a, b) ==
    IF IsNaN(a) \/ IsNaN(b) THEN NaN
    ELSE IF ~IsFinite(a) /\ ~IsFinite(b) THEN (IF a = b THEN a ELSE NaN)
    ELSE IF ~IsFinite(a) THEN a
    ELSE IF ~IsFinite(b) THEN b
    ELSE Norm(a[1] * b[2] + b[1] * a[2], a[2] * b[2])

RNeg(a) == <<-a[1], a[2]>>

RSub(a, b) == RAdd(a, RNeg(b))

RMul(a, b) ==
    IF IsNaN(a) \/ IsNaN(b) THEN NaN
    ELSE IF ~IsFinite(a) \/ ~IsFinite(b) THEN <<Sign(a[1]) * Sign(b[1]), 0>>
    ELSE Norm(a[1] * b[1], a[2] * b[2])

RDiv(a, b) ==
    IF IsNaN(a) \/ IsNaN(b) THEN NaN
    ELSE IF ~IsFinite(b) THEN (IF IsFinite(a) THEN Zero ELSE NaN)
    ELSE IF ~IsFinite(a) THEN <<a[1] * (IF b[1] < 0 THEN -1 ELSE 1), 0>>
    ELSE Norm(a[1] * b[2], a[2] * b[1])

\* a > 0 on floats: False for NaN
RGt0(a) == ~IsNaN(a) /\ a[1] > 0

RECURSIVE RSum(_)
RSum(s) == IF s = <<>> THEN Zero ELSE RAdd(Head(s), RSum(Tail(s)))

\* np.nanmean of a vector: the mean of its non-NaN entries, NaN when there are none
nanmean(s) ==
    LET kept == SelectSeq(s, LAMBDA x : ~IsNaN(x))
    IN  RDiv(RSum(kept), IntR(Len(kept)))

\* np.nan_to_num(x, nan=v)
nan_to_num(x, v) == IF IsNaN(x) THEN v ELSE x

-----------------------------------------------------------------------------
(* The band catalog *)

Range(s) == {s[i] : i \in 1..Len(s)}

\* list.index, 1-based
Index(s, x) == CHOOSE i \in 1..Len(s) : s[i] = x /\ \A j \in 1..(i - 1) : s[j] # x

\* The catalogs cropharvest.eo may provide.  engineer.py needs B4 and B8 among
\* the bands, B1 and B10 among the raw bands and slope among the static bands.
Catalogs ==
    << [dyn |-> <<"B1", "B4", "B8", "B10">>, stat |-> <<"slope">>],
       [dyn |-> <<"B4", "B8", "B1", "B10">>, stat |-> <<"slope">>],
       [dyn |-> <<"B4", "B1", "B8", "B10">>, stat |-> <<"slope", "elevation">>] >>

DYNAMIC_BANDS == Catalogs[catalog].dyn

STATIC_BANDS == Catalogs[catalog].stat

REMOVED_BANDS == <<"B1", "B10">>

RAW_BANDS == DYNAMIC_BANDS \o STATIC_BANDS

BANDS ==
    SelectSeq(DYNAMIC_BANDS, LAMBDA x : x \notin Range(REMOVED_BANDS))
        \o STATIC_BANDS \o <<"NDVI">>

-----------------------------------------------------------------------------
(* Arrays: [num_dims |-> 2, v |-> rows] with rows[t][b], or                 *)
(* [num_dims |-> 3, v |-> pixels] with pixels[p][t][b]                      *)

NoArray == [num_dims |-> 0, v |-> <<>>]

\* the [T, B] series of an array, whatever its rank
Series(array) == IF array.num_dims = 2 THEN <<array.v>> ELSE array.v

\* array.shape[bands_index]
NumBands(array) == Len(Series(array)[1][1])

\* the array of rank num_dims with the given series
FromSeries(num_dims, series) ==
    [num_dims |-> num_dims, v |-> IF num_dims = 2 THEN series[1] ELSE series]

\* the pixel and time positions of an array
PixelIdx(array) == 1..Len(Series(array))

TimeIdx(array) == 1..Len(Series(array)[1])

\* positions BANDS.index(band_1), BANDS.index(band_2) of calculate_ndvi
band_1_index == Index(BANDS, "B8")

band_2_index == Index(BANDS, "B4")

\* np.where((b1 + b2) > 0, (b1 - b2) / (b1 + b2), 0), elementwise
ndvi_value(b1, b2) ==
    IF RGt0(RAdd(b1, b2)) THEN RDiv(RSub(b1, b2), RAdd(b1, b2)) ELSE Zero

calculate_ndvi(input_array) ==
    FromSeries(input_array.num_dims,
        [p \in PixelIdx(input_array) |-> [t \in TimeIdx(input_array) |->
            LET row == Series(input_array)[p][t]
            IN  Append(row, ndvi_value(row[band_1_index], row[band_2_index]))]])

indices_to_remove == {Index(RAW_BANDS, band) : band \in Range(REMOVED_BANDS)}

\* a plausible slip: the kept indices range over the raw bands only, forgetting
\* the band calculate_ndvi appended
indices_to_keep_raw_only(array) ==
    LET all == [i \in 1..Len(RAW_BANDS) |-> i]
    IN  SelectSeq(all, LAMBDA i : i \notin indices_to_remove)

indices_to_keep(array) ==
    LET all == [i \in 1..NumBands(array) |-> i]
    IN  SelectSeq(all, LAMBDA i : i \notin indices_to_remove)

remove_bands(array) ==
    LET keep == indices_to_keep(array)
    IN  FromSeries(array.num_dims,
            [p \in PixelIdx(array) |-> [t \in TimeIdx(array) |->
                [k \in 1..Len(keep) |-> Series(array)[p][t][keep[k]]]]])

\* mean_per_band of fillna: nanmean over time, and for rank 3 the nanmean over
\* time of the nanmean over pixels
mean_per_band(array) ==
    IF array.num_dims = 2
    THEN [b \in 1..NumBands(array) |->
            nanmean([t \in 1..Len(array.v) |-> array.v[t][b]])]
    ELSE LET inner == [t \in 1..Len(array.v[1]) |->
                        [b \in 1..NumBands(array) |->
                            nanmean([p \in 1..Len(array.v) |-> array.v[p][t][b]])]]
         IN  [b \in 1..NumBands(array) |->
                nanmean([t \in 1..Len(inner) |-> inner[t][b]])]

bands_index(array) == IF array.num_dims = 2 THEN 1 ELSE 2

\* fillna's outcome: status "ok" with the filled array, "none" for the None
\* result, "assert_shape" and "assert_nan" for its two assertions failing
fillna(array, avg_slope) ==
    LET mean  == mean_per_band(array)
        nans  == {b \in 1..Len(mean) : IsNaN(mean[b])}
        slope == Index(BANDS, "slope")
        fixed == [mean EXCEPT ![slope] = avg_slope]
        fill(m) == FromSeries(array.num_dims,
                     [p \in PixelIdx(array) |-> [t \in TimeIdx(array) |->
                         [b \in 1..NumBands(array) |->
                             nan_to_num(Series(array)[p][t][b], m[b])]]])
    IN  IF NumBands(array) # Len(BANDS)
        THEN [status |-> "assert_shape", array |-> NoArray]
        ELSE IF nans = {}
        THEN [status |-> "ok", array |-> fill(mean)]
        ELSE IF Cardinality(nans) = bands_index(array) /\ slope \in nans
        THEN IF \E b \in 1..Len(fixed) : IsNaN(fixed[b])
             THEN [status |-> "assert_nan", array |-> NoArray]
             ELSE [status |-> "ok", array |-> fill(fixed)]
        ELSE [status |-> "none", array |-> NoArray]

-----------------------------------------------------------------------------
(* The transform pipeline of process_single_file (rank 2) and of            *)
(* process_test_file (rank 3)                                               *)

\* what a band of the raster holds: no data at all, no data at the first
\* timestep of the first pixel, -1, 0, or values growing from 1
ColumnKinds == {"nan", "part", "neg", "zero", "ramp"}

Entry(kind, p, t) ==
    CASE kind = "nan"  -> NaN
      [] kind = "part" -> IF p = 1 /\ t = 1 THEN NaN ELSE IntR(1)
      [] kind = "neg"  -> IntR(-1)
      [] kind = "zero" -> Zero
      [] kind = "ramp" -> IntR(p + t - 1)

RawArray(num_dims, pixels, kinds) ==
    IF num_dims = 2
    THEN [num_dims |-> 2,
          v |-> [t \in 1..NUM_TIMESTEPS |->
                    [b \in 1..Len(kinds) |-> Entry(kinds[b], 1, t)]]]
    ELSE [num_dims |-> 3,
          v |-> [p \in 1..pixels |->
                    [t \in 1..NUM_TIMESTEPS |->
                        [b \in 1..Len(kinds) |-> Entry(kinds[b], p, t)]]]]

AverageSlopes == {IntR(3)}

BandsIdle ==
    /\ catalog = 1
    /\ b_pc = "idle"
    /\ average_slope = IntR(3)
    /\ raw_np = NoArray
    /\ ndvi_np = NoArray
    /\ removed_np = NoArray
    /\ filled = [status |-> "pending", array |-> NoArray]

BandsInit ==
    /\ catalog \in 1..Len(Catalogs)
    /\ b_pc = "loaded"
    /\ average_slope \in AverageSlopes
    /\ \E kinds \in [1..Len(RAW_BANDS) -> ColumnKinds] :
          \/ raw_np = RawArray(2, 1, kinds)
          \/ \E pixels \in 1..MaxPixels : raw_np = RawArray(3, pixels, kinds)
    /\ ndvi_np = NoArray
    /\ removed_np = NoArray
    /\ filled = [status |-> "pending", array |-> NoArray]

StepNdvi ==
    /\ b_pc = "loaded"
    /\ ndvi_np' = calculate_ndvi(raw_np)
    /\ b_pc' = "ndvi"
    /\ UNCHANGED <<catalog, average_slope, raw_np, removed_np, filled>>
    /\ UNCHANGED <<normVars, labelVars, runVars>>

StepRemoveBands ==
    /\ b_pc = "ndvi"
    /\ removed_np' = remove_bands(ndvi_np)
    /\ b_pc' = "removed"
    /\ UNCHANGED <<catalog, average_slope, raw_np, ndvi_np, filled>>
    /\ UNCHANGED <<normVars, labelVars, runVars>>

StepFillna ==
    /\ b_pc = "removed"
    /\ filled' = fillna(removed_np, average_slope)
    /\ b_pc' = "filled"
    /\ UNCHANGED <<catalog, average_slope, raw_np, ndvi_np, removed_np>>
    /\ UNCHANGED <<normVars, labelVars, runVars>>

-----------------------------------------------------------------------------
(* The online normaliser *)

\* Engineer.__init__: norm_interim = {"n": 0}
EmptyNorm == [n |-> 0, has_mean |-> FALSE, mean |-> <<>>, M2 |-> <<>>]

\* one pass of the loop over time_idx
FoldRow(ni, x) ==
    LET n     == ni.n + 1
        delta == [b \in 1..Len(x) |-> RSub(x[b], ni.mean[b])]
        mean  == [b \in 1..Len(x) |-> RAdd(ni.mean[b], RDiv(delta[b], IntR(n)))]
        M2    == [b \in 1..Len(x) |->
                    RAdd(ni.M2[b], RMul(delta[b], RSub(x[b], mean[b])))]
    IN  [ni EXCEPT !.n = n, !.mean = mean, !.M2 = M2]

RECURSIVE FoldRows(_, _)
FoldRows(ni, rows) ==
    IF rows = <<>> THEN ni ELSE FoldRows(FoldRow(ni, Head(rows)), Tail(rows))

\* array is [T, B], given by its rows
update_normalizing_values(ni, rows) ==
    LET num_bands == Len(rows[1])
        start == IF ni.has_mean THEN ni
                 ELSE [ni EXCEPT !.has_mean = TRUE,
                                 !.mean = [b \in 1..num_bands |-> Zero],
                                 !.M2 = [b \in 1..num_bands |-> Zero]]
    IN  FoldRows(start, rows)

\* np.sqrt is kept symbolic: a root is the number under it (NaN for a negative
\* or NaN radicand), so two roots are equal exactly when their squares are
Sqrt(a) == [root_of |-> IF IsNaN(a) \/ a[1] < 0 THEN NaN ELSE a]

Square(r) == r.root_of

\* the None result
None == [ok |-> FALSE, mean |-> <<>>, std |-> <<>>]

calculate_normalizing_dict(ni) ==
    IF ~ni.has_mean THEN None
    ELSE [ok |-> TRUE, mean |-> ni.mean,
          std |-> [b \in 1..Len(ni.M2) |-> Sqrt(RDiv(ni.M2[b], IntR(ni.n - 1)))]]

RECURSIVE IntSum(_)
IntSum(s) == IF s = <<>> THEN 0 ELSE Head(s) + IntSum(Tail(s))

\* dicts is a sequence of <<length, dict>>
adjust_normalizing_dict(dicts) ==
    IF \E i \in 1..Len(dicts) : ~dicts[i][2].ok THEN None
    ELSE
      LET new_total == IntSum([i \in 1..Len(dicts) |-> dicts[i][1]])
          bands == 1..Len(dicts[1][2].mean)
          new_mean == [b \in bands |->
              RDiv(RSum([i \in 1..Len(dicts) |->
                          RMul(dicts[i][2].mean[b], IntR(dicts[i][1]))]),
                   IntR(new_total))]
          dev(i, b) == RSub(dicts[i][2].mean[b], new_mean[b])
          new_variance == [b \in bands |->
              RDiv(RSum([i \in 1..Len(dicts) |->
                          RMul(RAdd(Square(dicts[i][2].std[b]),
                                    RMul(dev(i, b), dev(i, b))),
                               IntR(dicts[i][1]))]),
                   IntR(new_total))]
      IN  [ok |-> TRUE, mean |-> new_mean,
           std |-> [b \in bands |-> Sqrt(new_variance[b])]]

\* the [T, 1] arrays with T rows
SampleArrays(T) == [1..T -> {<<IntR(x)>> : x \in 0..MaxSample}]

NormIdle ==
    /\ norm_interim = EmptyNorm
    /\ read_out = None
    /\ eng = [g \in {"a", "b", "all"} |-> EmptyNorm]

UpdateNormalizingValues ==
    /\ \E T \in 1..NUM_TIMESTEPS : \E rows \in SampleArrays(T) :
          /\ norm_interim.n + T <= MaxRows
          /\ norm_interim' = update_normalizing_values(norm_interim, rows)
    /\ UNCHANGED <<read_out, eng>>
    /\ UNCHANGED <<bandVars, labelVars, runVars>>

CalculateNormalizingDict ==
    /\ read_out' = calculate_normalizing_dict(norm_interim)
    /\ UNCHANGED <<norm_interim, eng>>
    /\ UNCHANGED <<bandVars, labelVars, runVars>>

FoldInto(g) ==
    /\ \E rows \in SampleArrays(NUM_TIMESTEPS) :
          /\ eng["all"].n + NUM_TIMESTEPS <= MaxRows
          /\ eng' = [eng EXCEPT
                ![g] = update_normalizing_values(eng[g], rows),
                !["all"] = update_normalizing_values(eng["all"], rows)]
    /\ UNCHANGED <<norm_interim, read_out>>
    /\ UNCHANGED <<bandVars, labelVars, runVars>>

FoldIntoA == FoldInto("a")

FoldIntoB == FoldInto("b")

\* the (count, stats) pair of a group: the rows folded and the read-out.  Every
\* array has NUM_TIMESTEPS rows, so counting arrays gives the same weights.
GroupPair(g) == <<eng[g].n, calculate_normalizing_dict(eng[g])>>

-----------------------------------------------------------------------------
(* Test instances: pickle_test_instances and the label mask of              *)
(* process_test_file                                                        *)

MISSING_DATA == -1

Pixels == 1..MaxPixels

\* a label geometry, as the pixels of the raster it covers
Geometries == SUBSET Pixels \ {{}}

\* mask.raster_geometry_mask(src, geoms, crop=False)[0], flattened: True outside
\* the shapes
raster_geometry_mask(geoms) == [p \in Pixels |-> ~(\E g \in geoms : p \in g)]

\* lines 317-320: swap the missing and the negative values
swap_labels(y0) ==
    LET negative == [p \in Pixels |-> y0[p] = -1]
        missing  == [p \in Pixels |-> y0[p] = 0]
        y1 == [p \in Pixels |-> IF negative[p] THEN 0 ELSE y0[p]]
    IN  [p \in Pixels |-> IF missing[p] THEN MISSING_DATA ELSE y1[p]]

label_vector(pos_geoms, neg_geoms) ==
    LET pmask == raster_geometry_mask(pos_geoms)
        nmask == raster_geometry_mask(neg_geoms)
        positive == [p \in Pixels |-> IF ~pmask[p] THEN 1 ELSE 0]
        negative == [p \in Pixels |-> (IF ~nmask[p] THEN 1 ELSE 0) * (-1)]
    IN  swap_labels([p \in Pixels |-> positive[p] + negative[p]])

NoLabels == [p \in Pixels |-> MISSING_DATA]

LabelIdle ==
    /\ t_pc = "idle"
    /\ test_todo = 0
    /\ test_saved = 0
    /\ positive_geoms = {}
    /\ negative_geoms = {}
    /\ y = NoLabels

\* lines 355-358
StartPickleTest ==
    /\ t_pc = "idle"
    /\ \E n \in 1..MaxTestFiles : test_todo' = n
    /\ t_pc' = "loop"
    /\ UNCHANGED <<test_saved, positive_geoms, negative_geoms, y>>
    /\ UNCHANGED <<bandVars, normVars, runVars>>

\* one pass of the loop of pickle_test_instances.  bands_ok: load_tif's band
\* count assertion holds; transform: what fillna gives for the raster.
ProcessTestFile ==
    /\ t_pc = "loop"
    /\ test_todo > 0
    /\ \E bands_ok \in BOOLEAN, transform \in {"ok", "none", "assert_nan"},
          pos \in SUBSET Geometries, neg \in SUBSET Geometries :
          IF ~bands_ok \/ transform = "assert_nan"
          THEN /\ t_pc' = "raised"
               /\ UNCHANGED <<test_todo, test_saved, positive_geoms, negative_geoms, y>>
          ELSE /\ positive_geoms' = pos
               /\ negative_geoms' = neg
               /\ y' = label_vector(pos, neg)
               /\ IF transform = "none"
                  THEN \* x_np is None at line 321
                       /\ t_pc' = "raised"
                       /\ UNCHANGED <<test_todo, test_saved>>
                  ELSE /\ test_saved' = test_saved + 1
                       /\ test_todo' = test_todo - 1
                       /\ UNCHANGED t_pc
    /\ UNCHANGED <<bandVars, normVars, runVars>>

FinishPickleTest ==
    /\ t_pc = "loop"
    /\ test_todo = 0
    /\ t_pc' = "done"
    /\ UNCHANGED <<test_todo, test_saved, positive_geoms, negative_geoms, y>>
    /\ UNCHANGED <<bandVars, normVars, runVars>>

-----------------------------------------------------------------------------
(* Training instances: process_single_file and create_pickled_dataset       *)

Files == 1..MaxFiles

FileKinds == {"ok", "slope_nan", "unfillable", "badbands", "nolabel"}

\* the pixel series da.sel(x=..).sel(y=..).values of raw file f: every band
\* holds f at the first timestep and grows by one per timestep
FileRaw(f) ==
    [num_dims |-> 2,
     v |-> [t \in 1..NUM_TIMESTEPS |->
              [b \in 1..Len(RAW_BANDS) |->
                 IF file_kind[f] = "slope_nan" /\ RAW_BANDS[b] = "slope" THEN NaN
                 ELSE IF file_kind[f] = "unfillable" /\ RAW_BANDS[b] = "B4" THEN NaN
                 ELSE IntR(f + t - 1)]]]

\* lines 331-336
transform_single_file(f) ==
    fillna(remove_bands(calculate_ndvi(FileRaw(f))), IntR(3))

NoneFolded == [f \in Files |-> 0]

NoOld == [present |-> FALSE, count |-> 0, dict |-> None]

RunIdle ==
    /\ file_kind = [f \in Files |-> "absent"]
    /\ arrays_dir = {}
    /\ normalizing_dict_pkl = None
    /\ pkl_folded = NoneFolded
    /\ interim_folded = NoneFolded
    /\ r_pc = "none"
    /\ raised = "no"
    /\ todo = <<>>
    /\ checkpoint = TRUE
    /\ old_normalizing_dict = NoOld
    /\ num_new_files = 0
    /\ skipped_files = 0
    /\ run_written = {}
    /\ runs = 0

\* a raw file is exported to eo_data between two runs
ExportFile ==
    /\ r_pc # "loop"
    /\ \E f \in Files, k \in FileKinds :
          /\ file_kind[f] = "absent"
          /\ \A g \in 1..(f - 1) : file_kind[g] # "absent"
          /\ file_kind' = [file_kind EXCEPT ![f] = k]
    /\ UNCHANGED <<arrays_dir, normalizing_dict_pkl, pkl_folded, interim_folded, r_pc,
                   raised, todo, checkpoint, old_normalizing_dict, num_new_files,
                   skipped_files, run_written, runs>>
    /\ UNCHANGED <<bandVars, norm_interim, read_out, eng, labelVars>>

\* Engineer.__init__ in a new process
NewEngineer ==
    /\ r_pc # "loop"
    /\ r_pc' = "idle"
    /\ norm_interim' = EmptyNorm
    /\ interim_folded' = NoneFolded
    /\ UNCHANGED <<file_kind, arrays_dir, normalizing_dict_pkl, pkl_folded, raised,
                   todo, checkpoint, old_normalizing_dict, num_new_files,
                   skipped_files, run_written, runs>>
    /\ UNCHANGED <<bandVars, read_out, eng, labelVars>>

\* the files of eo_data, in the order of their index
RECURSIVE Listing(_)
Listing(f) ==
    IF f > MaxFiles THEN <<>>
    ELSE (IF file_kind[f] = "absent" THEN <<>> ELSE <<f>>) \o Listing(f + 1)

\* lines 368-382: create_pickled_dataset up to its loop
StartRun(cp) ==
    /\ r_pc \in {"idle", "finished", "raised"}
    /\ runs < MaxRuns
    /\ runs' = runs + 1
    /\ checkpoint' = cp
    /\ old_normalizing_dict' =
          IF cp /\ normalizing_dict_pkl.ok
          THEN [present |-> TRUE, count |-> Cardinality(arrays_dir),
                dict |-> normalizing_dict_pkl]
          ELSE NoOld
    /\ skipped_files' = 0
    /\ num_new_files' = 0
    /\ run_written' = {}
    /\ todo' = Listing(1)
    /\ raised' = "no"
    /\ r_pc' = "loop"
    /\ UNCHANGED <<file_kind, arrays_dir, normalizing_dict_pkl, pkl_folded,
                   interim_folded>>
    /\ UNCHANGED <<bandVars, normVars, labelVars>>

StartAnyRun == \E cp \in BOOLEAN : StartRun(cp)

\* a checkpointed run of a new process
StartFreshRun == r_pc = "idle" /\ StartRun(TRUE)

Raise(exception) ==
    /\ r_pc' = "raised"
    /\ raised' = exception
    /\ UNCHANGED <<file_kind, arrays_dir, normalizing_dict_pkl, pkl_folded,
                   interim_folded, todo, checkpoint, old_normalizing_dict,
                   num_new_files, skipped_files, run_written, runs, norm_interim>>

\* lines 383-402: one pass of the loop
ProcessFile ==
    /\ r_pc = "loop"
    /\ todo # <<>>
    /\ LET f == Head(todo)
           res == transform_single_file(f)
       IN  IF checkpoint /\ f \in arrays_dir
           THEN /\ todo' = Tail(todo)
                /\ UNCHANGED <<file_kind, arrays_dir, normalizing_dict_pkl, pkl_folded,
                               interim_folded, r_pc, raised, checkpoint,
                               old_normalizing_dict, num_new_files, skipped_files,
                               run_written, runs, norm_interim>>
           ELSE IF file_kind[f] = "nolabel" THEN Raise("IndexError")
           ELSE IF file_kind[f] = "badbands" THEN Raise("AssertionError")
           ELSE IF res.status = "none"
           THEN /\ skipped_files' = skipped_files + 1
                /\ todo' = Tail(todo)
                /\ UNCHANGED <<file_kind, arrays_dir, normalizing_dict_pkl, pkl_folded,
                               interim_folded, r_pc, raised, checkpoint,
                               old_normalizing_dict, num_new_files, run_written, runs,
                               norm_interim>>
           ELSE /\ norm_interim' = update_normalizing_values(norm_interim, res.array.v)
                /\ interim_folded' = [interim_folded EXCEPT ![f] = @ + 1]
                /\ arrays_dir' = arrays_dir \cup {f}
                /\ run_written' = run_written \cup {f}
                /\ num_new_files' = num_new_files + 1
                /\ todo' = Tail(todo)
                /\ UNCHANGED <<file_kind, normalizing_dict_pkl, pkl_folded, r_pc, raised,
                               checkpoint, old_normalizing_dict, skipped_files, runs>>
    /\ UNCHANGED <<bandVars, read_out, eng, labelVars>>

\* the process is stopped inside the loop
Interrupt ==
    /\ r_pc = "loop"
    /\ r_pc' = "none"
    /\ norm_interim' = EmptyNorm
    /\ interim_folded' = NoneFolded
    /\ UNCHANGED <<file_kind, arrays_dir, normalizing_dict_pkl, pkl_folded, raised,
                   todo, checkpoint, old_normalizing_dict, num_new_files,
                   skipped_files, run_written, runs>>
    /\ UNCHANGED <<bandVars, read_out, eng, labelVars>>

\* lines 404-416
FinishRun ==
    /\ r_pc = "loop"
    /\ todo = <<>>
    /\ LET fresh  == calculate_normalizing_dict(norm_interim)
           merge  == checkpoint /\ old_normalizing_dict.present
           normalizing_dict ==
               IF merge
               THEN adjust_normalizing_dict(
                      << <<old_normalizing_dict.count, old_normalizing_dict.dict>>,
                         <<num_new_files, fresh>> >>)
               ELSE fresh
       IN  /\ read_out' = fresh
           /\ IF normalizing_dict.ok
              THEN /\ normalizing_dict_pkl' = normalizing_dict
                   /\ pkl_folded' =
                        [f \in Files |-> (IF merge THEN pkl_folded[f] ELSE 0)
                                            + interim_folded[f]]
              ELSE UNCHANGED <<normalizing_dict_pkl, pkl_folded>>
    /\ r_pc' = "finished"
    /\ UNCHANGED <<file_kind, arrays_dir, interim_folded, raised, todo, checkpoint,
                   old_normalizing_dict, num_new_files, skipped_files, run_written,
                   runs>>
    /\ UNCHANGED <<bandVars, norm_interim, eng, labelVars>>

-----------------------------------------------------------------------------
(* Specifications *)

vars == <<bandVars, normVars, labelVars, runVars>>

\* the transform pipeline on every raster of the bounds
BandsNext == StepNdvi \/ StepRemoveBands \/ StepFillna

BandsStart == BandsInit /\ NormIdle /\ LabelIdle /\ RunIdle

SpecBands == BandsStart /\ [][BandsNext]_vars

Idle == BandsIdle /\ NormIdle /\ LabelIdle /\ RunIdle

WelfordNext == UpdateNormalizingValues \/ CalculateNormalizingDict

SpecWelford == Idle /\ [][WelfordNext]_vars

MergeNext == FoldIntoA \/ FoldIntoB

SpecMerge == Idle /\ [][MergeNext]_vars

LabelNext == StartPickleTest \/ ProcessTestFile \/ FinishPickleTest

SpecLabel == Idle /\ [][LabelNext]_vars

\* any sequence of runs, on a new or on the same Engineer
RunNext ==
    ExportFile \/ NewEngineer \/ StartAnyRun \/ ProcessFile \/ Interrupt \/ FinishRun

SpecRun == Idle /\ [][RunNext]_vars

\* checkpointed runs, each in a process of its own
CheckpointNext ==
    ExportFile \/ NewEngineer \/ StartFreshRun \/ ProcessFile \/ Interrupt \/ FinishRun

SpecCheckpoint == Idle /\ [][CheckpointNext]_vars

-----------------------------------------------------------------------------
(* Properties *)

InAny(geoms, p) == \E g \in geoms : p \in g

\* C1: every pixel inside a positive geometry is labelled 1, whether or not a
\* negative geometry covers it too; a pixel inside negative geometries only is
\* labelled 0; a pixel inside neither is labelled MISSING_DATA.
C1_PositiveTakesPrecedence ==
    \A p \in Pixels :
        /\ InAny(positive_geoms, p) => y[p] = 1
        /\ (InAny(negative_geoms, p) /\ ~InAny(positive_geoms, p)) => y[p] = 0
        /\ (~InAny(negative_geoms, p) /\ ~InAny(positive_geoms, p))
              => y[p] = MISSING_DATA

RECURSIVE FoldedTotal(_, _)
FoldedTotal(folded, f) ==
    IF f > MaxFiles THEN 0 ELSE folded[f] + FoldedTotal(folded, f + 1)

\* C2: when a checkpointed run resumes, the count it pairs with the persisted
\* normalizing dict is the number of instances folded into that dict, and once
\* a run has finished with a normalizing dict on disk, every instance on disk
\* was folded into that dict exactly once.
C2_ResumeCountMatchesFolded ==
    /\ (r_pc = "loop" /\ old_normalizing_dict.present)
          => old_normalizing_dict.count = FoldedTotal(pkl_folded, 1)
    /\ (r_pc = "finished" /\ normalizing_dict_pkl.ok)
          => \A f \in Files : pkl_folded[f] = (IF f \in arrays_dir THEN 1 ELSE 0)

\* C3: merging the read-outs of two non-empty groups with
\* adjust_normalizing_dict, in either order, gives the mean and the std of
\* folding all arrays of both groups into one accumulator.
C3_MergeEqualsSingleFold ==
    (eng["a"].n > 0 /\ eng["b"].n > 0) =>
        LET whole == calculate_normalizing_dict(eng["all"])
            ab == adjust_normalizing_dict(<<GroupPair("a"), GroupPair("b")>>)
            ba == adjust_normalizing_dict(<<GroupPair("b"), GroupPair("a")>>)
        IN  /\ ab.ok /\ ab.mean = whole.mean /\ ab.std = whole.std
            /\ ba.ok /\ ba.mean = whole.mean /\ ba.std = whole.std

\* C4: calculate_normalizing_dict returns None while fewer than 2 rows were
\* folded, a mean/std result from the 2nd row on, and never divides by
\* n - 1 = 0.
C4_UnavailableBelowTwoRows ==
    LET dict == calculate_normalizing_dict(norm_interim)
    IN  /\ norm_interim.n < 2 => dict = None
        /\ norm_interim.n >= 2 =>
              (dict.ok /\ \A b \in 1..Len(dict.std) : ~IsNaN(Square(dict.std[b])))
        /\ norm_interim.has_mean => norm_interim.n - 1 # 0

\* the bands of an array that are NaN at every timestep and pixel
AllNaNBands(array) ==
    {b \in 1..NumBands(array) :
        \A p \in 1..Len(Series(array)) : \A t \in 1..Len(Series(array)[p]) :
            IsNaN(Series(array)[p][t][b])}

HasNaN(array) ==
    \E p \in 1..Len(Series(array)) : \E t \in 1..Len(Series(array)[p]) :
        \E b \in 1..Len(Series(array)[p][t]) : IsNaN(Series(array)[p][t][b])

\* C5: for both ranks, when slope is the one band that is NaN everywhere,
\* fillna fills it with average_slope and returns an array without NaN; when
\* another band, or more than one band, is NaN everywhere, fillna returns None.
C5_FillnaSlopeFallback ==
    b_pc = "filled" =>
        LET nans == AllNaNBands(removed_np)
            slope == Index(BANDS, "slope")
        IN  /\ nans = {slope} =>
                /\ filled.status = "ok"
                /\ ~HasNaN(filled.array)
                /\ \A p \in 1..Len(Series(removed_np)) : \A t \in 1..NUM_TIMESTEPS :
                      Series(filled.array)[p][t][slope] = average_slope
            /\ (nans # {} /\ nans # {slope}) => filled.status = "none"

\* C6: a file that cannot be processed never ends the run: no loop stops on an
\* exception with files left to visit.
C6_FaultIsolation == r_pc # "raised" /\ t_pc # "raised"

\* C7: calculate_ndvi appends one band holding (NIR - RED) / (NIR + RED) where
\* NIR + RED is not zero, the negative sums included, and 0 where it is zero;
\* the bands of the input stay in place.  NIR and RED are the values at the
\* positions the function reads.
C7_NdviOfEverySum ==
    b_pc \in {"ndvi", "removed", "filled"} =>
        \A p \in 1..Len(Series(raw_np)) : \A t \in 1..NUM_TIMESTEPS :
            LET row == Series(raw_np)[p][t]
                out == Series(ndvi_np)[p][t]
                sum == RAdd(row[band_1_index], row[band_2_index])
                dif == RSub(row[band_1_index], row[band_2_index])
            IN  /\ Len(out) = Len(row) + 1
                /\ \A b \in 1..Len(row) : out[b] = row[b]
                /\ (IsFinite(sum) /\ sum # Zero) => out[Len(out)] = RDiv(dif, sum)
                /\ sum = Zero => out[Len(out)] = Zero

\* C8: when a run ends, norm_interim holds the samples of exactly the files the
\* run has written, each once, and num_new_files counts them.
C8_AccumulatorHoldsThisRunOnly ==
    r_pc = "finished" =>
        /\ \A f \in Files : interim_folded[f] = (IF f \in run_written THEN 1 ELSE 0)
        /\ num_new_files = Cardinality(run_written)
        /\ norm_interim.n = NUM_TIMESTEPS * num_new_files

\* C9: after calculate_ndvi and remove_bands the band axis follows BANDS: its
\* length is len(DYNAMIC_BANDS) - len(REMOVED_BANDS) + len(STATIC_BANDS) + 1,
\* every kept raw band sits where BANDS names it, NDVI is last, and the shape
\* assertion of fillna holds.
C9_BandAxisFollowsBANDS ==
    b_pc \in {"removed", "filled"} =>
        /\ NumBands(removed_np) =
              Len(DYNAMIC_BANDS) - Len(REMOVED_BANDS) + Len(STATIC_BANDS) + 1
        /\ NumBands(removed_np) = Len(BANDS)
        /\ \A p \in 1..Len(Series(raw_np)) : \A t \in 1..NUM_TIMESTEPS :
              /\ Len(Series(removed_np)[p][t]) = Len(BANDS)
              /\ \A i \in 1..Len(BANDS) :
                    Series(removed_np)[p][t][i] =
                        IF BANDS[i] = "NDVI"
                        THEN Series(ndvi_np)[p][t][Len(RAW_BANDS) + 1]
                        ELSE Series(raw_np)[p][t][Index(RAW_BANDS, BANDS[i])]
        /\ b_pc = "filled" => filled.status # "assert_shape"

\* C9's case: a raster whose removed band differs from the band after it went
\* through the whole pipeline
C9_Witness ==
    /\ b_pc = "filled"
    /\ filled.status = "ok"
    /\ \E i \in indices_to_remove :
          Series(raw_np)[1][1][i] # Series(raw_np)[1][1][i + 1]

\* a removed band stands before B4 or B8 in the raw band order
RemovedBandPrecedes ==
    \E r \in Range(REMOVED_BANDS) : \E x \in {"B4", "B8"} :
        Index(RAW_BANDS, r) < Index(RAW_BANDS, x)

\* C10: in the builders' order (calculate_ndvi on the raw array), when a removed
\* band precedes B4 or B8, the positions calculate_ndvi reads are those of B8
\* and B4 in RAW_BANDS, and the band it appends is the NDVI of the raw B8 and B4.
C10_NdviReadsRawB8B4 ==
    (b_pc \in {"ndvi", "removed", "filled"} /\ RemovedBandPrecedes) =>
        /\ band_1_index = Index(RAW_BANDS, "B8")
        /\ band_2_index = Index(RAW_BANDS, "B4")
        /\ \A p \in 1..Len(Series(raw_np)) : \A t \in 1..NUM_TIMESTEPS :
              Series(ndvi_np)[p][t][Len(RAW_BANDS) + 1] =
                  ndvi_value(Series(raw_np)[p][t][Index(RAW_BANDS, "B8")],
                             Series(raw_np)[p][t][Index(RAW_BANDS, "B4")])

====
